---------------------------- MODULE Spec2Model ----------------------------
(***************************************************************************)
(* A model of nmc_met_map: the per-function model tables, the lookup of    *)
(* the model name, the construction of the retrieval filename, and the     *)
(* order in which each plotting function calls get_model_grid, creates     *)
(* its figure and shows it.                                                *)
(*                                                                         *)
(* A Python str is the sequence of its code points.  Data-source paths     *)
(* are never inspected by the code, so they stay whole strings.            *)
(***************************************************************************)
EXTENDS Integers, Sequences, FiniteSets, TLC

VARIABLES
    func,          \* the function that was called
    model,         \* argument model (a str; unused by cref_uv850_compare)
    initial_time,  \* argument initial_time (a datetime or a str)
    fhour,         \* argument fhour
    draw_wind,     \* argument draw_wind (cref_uv850, cref_uv850_compare)
    pc,            \* position in the function body
    data_dir,      \* local data_dir: the path list taken from the table
    filename,      \* local filename (NoValue until model_filename returns)
    index,         \* loop index of cref_uv850_compare
    pos,           \* position of data_dir the next get_model_grid call reads
    requests,      \* calls made to get_model_grid: <<path, filename>>, in order
    responses,     \* what get_model_grid returned to each: "grid" or "None"
    printed,       \* what the call wrote with print()
    figure,        \* "none", "created" (plt.figure) or "shown" (plt.show)
    result,        \* "running", "returned" or "raised"
    error          \* the exception raised, NoError if none

vars == <<func, model, initial_time, fhour, draw_wind, pc, data_dir, filename,
          index, pos, requests, responses, printed, figure, result, error>>

-----------------------------------------------------------------------------
(* Bounds of the inputs.                                                   *)

\* longest run of whitespace put before and after a model name or a time string
MaxPad == 1
\* largest forecast hour given to model_filename
MaxFhour == 1001

-----------------------------------------------------------------------------
(* Python str.  A str is the sequence of the code points of its characters *)
(* (ord), so that every character has a spelling, also those str.upper()   *)
(* produces outside Latin-1.                                               *)

\* the printable ASCII characters, from ' ' (32) to '~' (126); the double
\* quote (34), the backslash (92) and the backtick (96) are written as words
Printable == <<
    " ", "!", "quote", "#", "$", "%", "&", "'", "(", ")", "*", "+", ",", "-", ".", "/",
    "0", "1", "2", "3", "4", "5", "6", "7", "8", "9", ":", ";", "<", "=", ">", "?",
    "@", "A", "B", "C", "D", "E", "F", "G", "H", "I", "J", "K", "L", "M", "N", "O",
    "P", "Q", "R", "S", "T", "U", "V", "W", "X", "Y", "Z", "[", "backslash", "]", "^", "_",
    "backtick", "a", "b", "c", "d", "e", "f", "g", "h", "i", "j", "k", "l", "m", "n", "o",
    "p", "q", "r", "s", "t", "u", "v", "w", "x", "y", "z", "{", "|", "}", "~" >>

\* ord(c) of a printable ASCII character
Ord(c) == 31 + CHOOSE i \in DOMAIN Printable : Printable[i] = c

\* the str a literal of printable ASCII characters denotes
Code(chars) == [i \in 1..Len(chars) |-> Ord(chars[i])]

\* the code points str.strip() removes when called without argument: those
\* of the characters c with c.isspace()
Whitespace ==
    { 9, 10, 11, 12, 13, 28, 29, 30, 31, 32, 133, 160, 5760,
      8192, 8193, 8194, 8195, 8196, 8197, 8198, 8199, 8200, 8201, 8202, 8232, 8233, 8239, 8287, 12288 }

\* the characters above ASCII whose upper case is one other character:
\* <<first, last, step, offset>> maps first, first + step, ..., last to
\* themselves plus offset
UpperRanges == <<
    <<181, 181, 1, 743>>, <<224, 246, 1, -32>>, <<248, 254, 1, -32>>,
    <<255, 255, 1, 121>>, <<257, 303, 2, -1>>, <<305, 305, 1, -232>>,
    <<307, 311, 2, -1>>, <<314, 328, 2, -1>>, <<331, 375, 2, -1>>,
    <<378, 382, 2, -1>>, <<383, 383, 1, -300>>, <<384, 384, 1, 195>>,
    <<387, 389, 2, -1>>, <<392, 392, 1, -1>>, <<396, 396, 1, -1>>,
    <<402, 402, 1, -1>>, <<405, 405, 1, 97>>, <<409, 409, 1, -1>>,
    <<410, 410, 1, 163>>, <<414, 414, 1, 130>>, <<417, 421, 2, -1>>,
    <<424, 424, 1, -1>>, <<429, 429, 1, -1>>, <<432, 432, 1, -1>>,
    <<436, 438, 2, -1>>, <<441, 441, 1, -1>>, <<445, 445, 1, -1>>,
    <<447, 447, 1, 56>>, <<453, 453, 1, -1>>, <<454, 454, 1, -2>>,
    <<456, 456, 1, -1>>, <<457, 457, 1, -2>>, <<459, 459, 1, -1>>,
    <<460, 460, 1, -2>>, <<462, 476, 2, -1>>, <<477, 477, 1, -79>>,
    <<479, 495, 2, -1>>, <<498, 498, 1, -1>>, <<499, 499, 1, -2>>,
    <<501, 501, 1, -1>>, <<505, 543, 2, -1>>, <<547, 563, 2, -1>>,
    <<572, 572, 1, -1>>, <<575, 576, 1, 10815>>, <<578, 578, 1, -1>>,
    <<583, 591, 2, -1>>, <<592, 592, 1, 10783>>, <<593, 593, 1, 10780>>,
    <<594, 594, 1, 10782>>, <<595, 595, 1, -210>>, <<596, 596, 1, -206>>,
    <<598, 599, 1, -205>>, <<601, 601, 1, -202>>, <<603, 603, 1, -203>>,
    <<604, 604, 1, 42319>>, <<608, 608, 1, -205>>, <<609, 609, 1, 42315>>,
    <<611, 611, 1, -207>>, <<613, 613, 1, 42280>>, <<614, 614, 1, 42308>>,
    <<616, 616, 1, -209>>, <<617, 617, 1, -211>>, <<618, 618, 1, 42308>>,
    <<619, 619, 1, 10743>>, <<620, 620, 1, 42305>>, <<623, 623, 1, -211>>,
    <<625, 625, 1, 10749>>, <<626, 626, 1, -213>>, <<629, 629, 1, -214>>,
    <<637, 637, 1, 10727>>, <<640, 640, 1, -218>>, <<642, 642, 1, 42307>>,
    <<643, 643, 1, -218>>, <<647, 647, 1, 42282>>, <<648, 648, 1, -218>>,
    <<649, 649, 1, -69>>, <<650, 651, 1, -217>>, <<652, 652, 1, -71>>,
    <<658, 658, 1, -219>>, <<669, 669, 1, 42261>>, <<670, 670, 1, 42258>>,
    <<837, 837, 1, 84>>, <<881, 883, 2, -1>>, <<887, 887, 1, -1>>,
    <<891, 893, 1, 130>>, <<940, 940, 1, -38>>, <<941, 943, 1, -37>>,
    <<945, 961, 1, -32>>, <<962, 962, 1, -31>>, <<963, 971, 1, -32>>,
    <<972, 972, 1, -64>>, <<973, 974, 1, -63>>, <<976, 976, 1, -62>>,
    <<977, 977, 1, -57>>, <<981, 981, 1, -47>>, <<982, 982, 1, -54>>,
    <<983, 983, 1, -8>>, <<985, 1007, 2, -1>>, <<1008, 1008, 1, -86>>,
    <<1009, 1009, 1, -80>>, <<1010, 1010, 1, 7>>, <<1011, 1011, 1, -116>>,
    <<1013, 1013, 1, -96>>, <<1016, 1016, 1, -1>>, <<1019, 1019, 1, -1>>,
    <<1072, 1103, 1, -32>>, <<1104, 1119, 1, -80>>, <<1121, 1153, 2, -1>>,
    <<1163, 1215, 2, -1>>, <<1218, 1230, 2, -1>>, <<1231, 1231, 1, -15>>,
    <<1233, 1327, 2, -1>>, <<1377, 1414, 1, -48>>, <<4304, 4346, 1, 3008>>,
    <<4349, 4351, 1, 3008>>, <<5112, 5117, 1, -8>>, <<7296, 7296, 1, -6254>>,
    <<7297, 7297, 1, -6253>>, <<7298, 7298, 1, -6244>>, <<7299, 7300, 1, -6242>>,
    <<7301, 7301, 1, -6243>>, <<7302, 7302, 1, -6236>>, <<7303, 7303, 1, -6181>>,
    <<7304, 7304, 1, 35266>>, <<7545, 7545, 1, 35332>>, <<7549, 7549, 1, 3814>>,
    <<7566, 7566, 1, 35384>>, <<7681, 7829, 2, -1>>, <<7835, 7835, 1, -59>>,
    <<7841, 7935, 2, -1>>, <<7936, 7943, 1, 8>>, <<7952, 7957, 1, 8>>,
    <<7968, 7975, 1, 8>>, <<7984, 7991, 1, 8>>, <<8000, 8005, 1, 8>>,
    <<8017, 8023, 2, 8>>, <<8032, 8039, 1, 8>>, <<8048, 8049, 1, 74>>,
    <<8050, 8053, 1, 86>>, <<8054, 8055, 1, 100>>, <<8056, 8057, 1, 128>>,
    <<8058, 8059, 1, 112>>, <<8060, 8061, 1, 126>>, <<8112, 8113, 1, 8>>,
    <<8126, 8126, 1, -7205>>, <<8144, 8145, 1, 8>>, <<8160, 8161, 1, 8>>,
    <<8165, 8165, 1, 7>>, <<8526, 8526, 1, -28>>, <<8560, 8575, 1, -16>>,
    <<8580, 8580, 1, -1>>, <<9424, 9449, 1, -26>>, <<11312, 11359, 1, -48>>,
    <<11361, 11361, 1, -1>>, <<11365, 11365, 1, -10795>>, <<11366, 11366, 1, -10792>>,
    <<11368, 11372, 2, -1>>, <<11379, 11379, 1, -1>>, <<11382, 11382, 1, -1>>,
    <<11393, 11491, 2, -1>>, <<11500, 11502, 2, -1>>, <<11507, 11507, 1, -1>>,
    <<11520, 11557, 1, -7264>>, <<11559, 11559, 1, -7264>>, <<11565, 11565, 1, -7264>>,
    <<42561, 42605, 2, -1>>, <<42625, 42651, 2, -1>>, <<42787, 42799, 2, -1>>,
    <<42803, 42863, 2, -1>>, <<42874, 42876, 2, -1>>, <<42879, 42887, 2, -1>>,
    <<42892, 42892, 1, -1>>, <<42897, 42899, 2, -1>>, <<42900, 42900, 1, 48>>,
    <<42903, 42921, 2, -1>>, <<42933, 42947, 2, -1>>, <<42952, 42954, 2, -1>>,
    <<42961, 42961, 1, -1>>, <<42967, 42969, 2, -1>>, <<42998, 42998, 1, -1>>,
    <<43859, 43859, 1, -928>>, <<43888, 43967, 1, -38864>>, <<65345, 65370, 1, -32>>,
    <<66600, 66639, 1, -40>>, <<66776, 66811, 1, -40>>, <<66967, 66977, 1, -39>>,
    <<66979, 66993, 1, -39>>, <<66995, 67001, 1, -39>>, <<67003, 67004, 1, -39>>,
    <<68800, 68850, 1, -64>>, <<71872, 71903, 1, -32>>, <<93792, 93823, 1, -32>>,
    <<125218, 125251, 1, -34>> >>

\* the characters whose upper case is more than one character
UpperSpecial == <<
    <<223, <<83, 83>>>>, <<329, <<700, 78>>>>, <<496, <<74, 780>>>>,
    <<912, <<921, 776, 769>>>>, <<944, <<933, 776, 769>>>>, <<1415, <<1333, 1362>>>>,
    <<7830, <<72, 817>>>>, <<7831, <<84, 776>>>>, <<7832, <<87, 778>>>>,
    <<7833, <<89, 778>>>>, <<7834, <<65, 702>>>>, <<8016, <<933, 787>>>>,
    <<8018, <<933, 787, 768>>>>, <<8020, <<933, 787, 769>>>>, <<8022, <<933, 787, 834>>>>,
    <<8064, <<7944, 921>>>>, <<8065, <<7945, 921>>>>, <<8066, <<7946, 921>>>>,
    <<8067, <<7947, 921>>>>, <<8068, <<7948, 921>>>>, <<8069, <<7949, 921>>>>,
    <<8070, <<7950, 921>>>>, <<8071, <<7951, 921>>>>, <<8072, <<7944, 921>>>>,
    <<8073, <<7945, 921>>>>, <<8074, <<7946, 921>>>>, <<8075, <<7947, 921>>>>,
    <<8076, <<7948, 921>>>>, <<8077, <<7949, 921>>>>, <<8078, <<7950, 921>>>>,
    <<8079, <<7951, 921>>>>, <<8080, <<7976, 921>>>>, <<8081, <<7977, 921>>>>,
    <<8082, <<7978, 921>>>>, <<8083, <<7979, 921>>>>, <<8084, <<7980, 921>>>>,
    <<8085, <<7981, 921>>>>, <<8086, <<7982, 921>>>>, <<8087, <<7983, 921>>>>,
    <<8088, <<7976, 921>>>>, <<8089, <<7977, 921>>>>, <<8090, <<7978, 921>>>>,
    <<8091, <<7979, 921>>>>, <<8092, <<7980, 921>>>>, <<8093, <<7981, 921>>>>,
    <<8094, <<7982, 921>>>>, <<8095, <<7983, 921>>>>, <<8096, <<8040, 921>>>>,
    <<8097, <<8041, 921>>>>, <<8098, <<8042, 921>>>>, <<8099, <<8043, 921>>>>,
    <<8100, <<8044, 921>>>>, <<8101, <<8045, 921>>>>, <<8102, <<8046, 921>>>>,
    <<8103, <<8047, 921>>>>, <<8104, <<8040, 921>>>>, <<8105, <<8041, 921>>>>,
    <<8106, <<8042, 921>>>>, <<8107, <<8043, 921>>>>, <<8108, <<8044, 921>>>>,
    <<8109, <<8045, 921>>>>, <<8110, <<8046, 921>>>>, <<8111, <<8047, 921>>>>,
    <<8114, <<8122, 921>>>>, <<8115, <<913, 921>>>>, <<8116, <<902, 921>>>>,
    <<8118, <<913, 834>>>>, <<8119, <<913, 834, 921>>>>, <<8124, <<913, 921>>>>,
    <<8130, <<8138, 921>>>>, <<8131, <<919, 921>>>>, <<8132, <<905, 921>>>>,
    <<8134, <<919, 834>>>>, <<8135, <<919, 834, 921>>>>, <<8140, <<919, 921>>>>,
    <<8146, <<921, 776, 768>>>>, <<8147, <<921, 776, 769>>>>, <<8150, <<921, 834>>>>,
    <<8151, <<921, 776, 834>>>>, <<8162, <<933, 776, 768>>>>, <<8163, <<933, 776, 769>>>>,
    <<8164, <<929, 787>>>>, <<8166, <<933, 834>>>>, <<8167, <<933, 776, 834>>>>,
    <<8178, <<8186, 921>>>>, <<8179, <<937, 921>>>>, <<8180, <<911, 921>>>>,
    <<8182, <<937, 834>>>>, <<8183, <<937, 834, 921>>>>, <<8188, <<937, 921>>>>,
    <<64256, <<70, 70>>>>, <<64257, <<70, 73>>>>, <<64258, <<70, 76>>>>,
    <<64259, <<70, 70, 73>>>>, <<64260, <<70, 70, 76>>>>, <<64261, <<83, 84>>>>,
    <<64262, <<83, 84>>>>, <<64275, <<1348, 1350>>>>, <<64276, <<1348, 1333>>>>,
    <<64277, <<1348, 1339>>>>, <<64278, <<1358, 1350>>>>, <<64279, <<1348, 1341>>>> >>

\* c.upper() for one character
upper_char(c) ==
    CASE c \in 97..122 -> <<c - 32>>
      [] c < 128 -> <<c>>
      [] \E i \in DOMAIN UpperSpecial : UpperSpecial[i][1] = c ->
            UpperSpecial[CHOOSE i \in DOMAIN UpperSpecial : UpperSpecial[i][1] = c][2]
      [] \E i \in DOMAIN UpperRanges :
            /\ UpperRanges[i][1] <= c /\ c <= UpperRanges[i][2]
            /\ (c - UpperRanges[i][1]) % UpperRanges[i][3] = 0 ->
            LET r == UpperRanges[CHOOSE i \in DOMAIN UpperRanges :
                        /\ UpperRanges[i][1] <= c /\ c <= UpperRanges[i][2]
                        /\ (c - UpperRanges[i][1]) % UpperRanges[i][3] = 0]
            IN  <<c + r[4]>>
      [] OTHER -> <<c>>

\* str.upper()
RECURSIVE str_upper(_)
str_upper(s) ==
    IF s = <<>> THEN <<>> ELSE upper_char(Head(s)) \o str_upper(Tail(s))

RECURSIVE str_lstrip(_)
str_lstrip(s) ==
    IF s # <<>> /\ Head(s) \in Whitespace THEN str_lstrip(Tail(s)) ELSE s

RECURSIVE str_rstrip(_)
str_rstrip(s) ==
    IF s # <<>> /\ s[Len(s)] \in Whitespace
    THEN str_rstrip(SubSeq(s, 1, Len(s) - 1))
    ELSE s

\* a mutant of str_strip: only the leading whitespace is removed
str_strip_left_only(s) == str_lstrip(s)

\* str.strip()
str_strip(s) == str_rstrip(str_lstrip(s))

\* str(n) for n >= 0; the digits '0' to '9' are the code points 48 to 57
RECURSIVE decimal(_)
decimal(n) ==
    IF n < 10 THEN <<48 + n>>
    ELSE decimal(n \div 10) \o <<48 + (n % 10)>>

RECURSIVE zero_fill(_, _)
zero_fill(s, width) ==
    IF Len(s) >= width THEN s ELSE zero_fill(Code(<<"0">>) \o s, width)

\* a mutant of format_d: the number is cut to its last `width` digits
format_d_truncating(n, width) ==
    LET s == zero_fill(decimal(IF n < 0 THEN -n ELSE n), width)
    IN  SubSeq(s, Len(s) - width + 1, Len(s))

\* "{:0<width>d}".format(n): the sign counts in the width, and a number with
\* more digits than the width is written in full
format_d(n, width) ==
    IF n < 0 THEN Code(<<"-">>) \o zero_fill(decimal(-n), width - 1)
    ELSE zero_fill(decimal(n), width)

-----------------------------------------------------------------------------
(* utility.py                                                              *)

\* the width of '{:03d}'
FhourWidth == 3

\* a datetime.datetime, and a str, as values of initial_time
DateTime(y, mo, d, h, mi, s) ==
    [kind |-> "datetime", year |-> y, month |-> mo, day |-> d,
     hour |-> h, minute |-> mi, second |-> s, text |-> <<>>]
Str(t) ==
    [kind |-> "str", year |-> 0, month |-> 0, day |-> 0,
     hour |-> 0, minute |-> 0, second |-> 0, text |-> t]

\* a mutant of strftime_ymdh: %M (the minute) in place of %H
strftime_ymdM(t) ==
    format_d(t.year % 100, 2) \o format_d(t.month, 2)
        \o format_d(t.day, 2) \o format_d(t.minute, 2)

\* initial_time.strftime('%y%m%d%H')
strftime_ymdh(t) ==
    format_d(t.year % 100, 2) \o format_d(t.month, 2)
        \o format_d(t.day, 2) \o format_d(t.hour, 2)

\* a mutant of time_token: the string is used without strip()
time_token_unstripped(t) ==
    IF t.kind = "datetime" THEN strftime_ymdh(t) ELSE t.text

\* the part of the filename before the '.'
time_token(t) ==
    IF t.kind = "datetime" THEN strftime_ymdh(t) ELSE str_strip(t.text)

model_filename(t, fh) == time_token(t) \o Code(<<".">>) \o format_d(fh, FhourWidth)


-----------------------------------------------------------------------------
(* The model tables.  A dict literal is the sequence of its items, in the   *)
(* order the literal writes them, which is the order a loop over it visits. *)

\* the strings of the table keys and of the names in the error messages
K_SHANGHAI == Code(<<"S","H","A","N","G","H","A","I">>)
K_BEIJING == Code(<<"B","E","I","J","I","N","G">>)
K_GRAPES_MESO == Code(<<"G","R","A","P","E","S","_","M","E","S","O">>)
K_GRAPES_3KM == Code(<<"G","R","A","P","E","S","_","3","K","M">>)
K_ECMWF == Code(<<"E","C","M","W","F">>)
K_GRAPES == Code(<<"G","R","A","P","E","S">>)
K_NCEP == Code(<<"N","C","E","P">>)
N_ShangHai == Code(<<"S","h","a","n","g","H","a","i">>)
N_BeiJing == Code(<<"B","e","i","J","i","n","g">>)
N_Grapes_meso == Code(<<"G","r","a","p","e","s","_","m","e","s","o">>)
N_Grapes_3km == Code(<<"G","r","a","p","e","s","_","3","k","m">>)

NoValue == <<>>
NoError == [kind |-> "none", msg |-> "", choices |-> <<>>]

\* mesoscale.py, cref_uv850
cref_data_dirs == <<
    [key |-> K_SHANGHAI,
     dirs |-> <<"SHANGHAI_HR/COMPOSITE_REFLECTIVITY/ENTIRE_ATMOSPHERE",
                "SHANGHAI_HR/UGRD/850", "SHANGHAI_HR/VGRD/850">>],
    [key |-> K_BEIJING,
     dirs |-> <<"BEIJING_MR/COMPOSITE_REFLECTIVITY/ENTIRE_ATMOSPHERE",
                "BEIJING_MR/UGRD/850", "BEIJING_MR/VGRD/850">>],
    [key |-> K_GRAPES_MESO,
     dirs |-> <<"GRAPES_MESO_HR/RADAR_COMBINATION_REFLECTIVITY",
                "GRAPES_MESO_HR/UGRD/850", "GRAPES_MESO_HR/VGRD/850">>],
    [key |-> K_GRAPES_3KM,
     dirs |-> <<"GRAPES_3KM/RADAR_COMBINATION_REFLECTIVITY",
                "GRAPES_3KM/UGRD/850", "GRAPES_3KM/VGRD/850">>] >>

\* mesoscale.py, cref_uv850_compare
compare_data_dirs == <<
    [key |-> K_SHANGHAI,
     dirs |-> <<"SHANGHAI_HR/COMPOSITE_REFLECTIVITY/ENTIRE_ATMOSPHERE",
                "SHANGHAI_HR/UGRD/850", "SHANGHAI_HR/VGRD/850">>],
    [key |-> K_BEIJING,
     dirs |-> <<"BEIJING_MR/COMPOSITE_REFLECTIVITY/ENTIRE_ATMOSPHERE",
                "BEIJING_MR/UGRD/850", "BEIJING_MR/VGRD/850">>],
    [key |-> K_GRAPES_MESO,
     dirs |-> <<"GRAPES_MESO_HR/RADAR_COMBINATION_REFLECTIVITY",
                "GRAPES_MESO_HR/UGRD/850", "GRAPES_MESO_HR/VGRD/850">>],
    [key |-> K_GRAPES_3KM,
     dirs |-> <<"GRAPES_3KM/RADAR_COMBINATION_REFLECTIVITY",
                "GRAPES_3KM/UGRD/850", "GRAPES_3KM/VGRD/850">>] >>

\* qpf.py, qpf_24h
qpf_data_dirs == << [key |-> K_ECMWF, dirs |-> <<"ECMWF_HR/RAIN24">>] >>

\* a mutant of gh500_data_dirs: the PRMSL entry of NCEP is missing
gh500_data_dirs_short == <<
    [key |-> K_ECMWF,
     dirs |-> <<"ECMWF_LR/HGT/500", "ECMWF_LR/UGRD/850",
                "ECMWF_LR/VGRD/850", "ECMWF_LR/PRMSL">>],
    [key |-> K_GRAPES,
     dirs |-> <<"GRAPES_GFS/HGT/500", "GRAPES_GFS/UGRD/850",
                "GRAPES_GFS/VGRD/850", "GRAPES_GFS/PRMSL">>],
    [key |-> K_NCEP,
     dirs |-> <<"NCEP_GFS/HGT/500", "NCEP_GFS/UGRD/850",
                "NCEP_GFS/VGRD/850">>] >>

\* synoptic.py, gh500_uv850_mslp
gh500_data_dirs == <<
    [key |-> K_ECMWF,
     dirs |-> <<"ECMWF_LR/HGT/500", "ECMWF_LR/UGRD/850",
                "ECMWF_LR/VGRD/850", "ECMWF_LR/PRMSL">>],
    [key |-> K_GRAPES,
     dirs |-> <<"GRAPES_GFS/HGT/500", "GRAPES_GFS/UGRD/850",
                "GRAPES_GFS/VGRD/850", "GRAPES_GFS/PRMSL">>],
    [key |-> K_NCEP,
     dirs |-> <<"NCEP_GFS/HGT/500", "NCEP_GFS/UGRD/850",
                "NCEP_GFS/VGRD/850", "NCEP_GFS/PRMSL">>] >>

\* the ValueError each function raises; choices lists the model names its
\* message offers, as the message spells them
cref_error ==
    [kind |-> "ValueError",
     msg |-> "Unknown model, choose ShangHai, BeiJing, Grapes_meso of Grapes_3km.",
     choices |-> <<N_ShangHai, N_BeiJing, N_Grapes_meso, N_Grapes_3km>>]
qpf_error ==
    [kind |-> "ValueError",
     msg |-> "Unknown model, choose ECMWF, GRAPES or NCEP.",
     choices |-> <<K_ECMWF, K_GRAPES, K_NCEP>>]
gh500_error ==
    [kind |-> "ValueError",
     msg |-> "Unknown model, choose ECMWF, GRAPES or NCEP.",
     choices |-> <<K_ECMWF, K_GRAPES, K_NCEP>>]

\* what a list index past the end of data_dir raises
index_error ==
    [kind |-> "IndexError", msg |-> "list index out of range", choices |-> <<>>]

\* the table and the error of each function that takes a model name
data_dirs(f) ==
    CASE f = "cref_uv850" -> cref_data_dirs
      [] f = "cref_uv850_compare" -> compare_data_dirs
      [] f = "qpf_24h" -> qpf_data_dirs
      [] f = "gh500_uv850_mslp" -> gh500_data_dirs
      [] OTHER -> <<>>
unknown_model_error(f) ==
    CASE f = "cref_uv850" -> cref_error
      [] f = "qpf_24h" -> qpf_error
      [] f = "gh500_uv850_mslp" -> gh500_error
      [] OTHER -> NoError

Keys(table) == {table[i].key : i \in DOMAIN table}

\* k in data_dirs
has_key(table, k) == \E i \in DOMAIN table : table[i].key = k

\* data_dirs[k], for a key of the table
dict_getitem(table, k) ==
    table[CHOOSE i \in DOMAIN table : table[i].key = k].dirs

\* a mutant of resolve: a name that is no key falls back to the first entry
resolve_defaulting(table, err, m) ==
    LET k == str_upper(str_strip(m))
    IN  IF has_key(table, k)
        THEN [raised |-> FALSE, dirs |-> dict_getitem(table, k), error |-> NoError]
        ELSE [raised |-> FALSE, dirs |-> table[1].dirs, error |-> NoError]

\* try: data_dir = data_dirs[model.strip().upper()]
\* except KeyError: raise ValueError(...)
resolve(table, err, m) ==
    LET k == str_upper(str_strip(m))
    IN  IF has_key(table, k)
        THEN [raised |-> FALSE, dirs |-> dict_getitem(table, k), error |-> NoError]
        ELSE [raised |-> TRUE, dirs |-> NoValue, error |-> err]

-----------------------------------------------------------------------------
(* The steps the plotting functions share.                                 *)

args == <<func, model, initial_time, fhour, draw_wind>>

\* a mutant of Lookup: the filename is built before the model name is looked up
LookupAfterFilename(table, err) ==
    /\ pc = "lookup"
    /\ filename' = model_filename(initial_time, fhour)
    /\ LET r == resolve(table, err, model)
       IN  IF r.raised
           THEN /\ result' = "raised"
                /\ error' = r.error
                /\ pc' = "done"
                /\ UNCHANGED data_dir
           ELSE /\ data_dir' = r.dirs
                /\ pc' = "filename"
                /\ UNCHANGED <<result, error>>
    /\ UNCHANGED <<args, index, pos, requests, responses, printed, figure>>

\* the model lookup at the head of a function
Lookup(table, err) ==
    /\ pc = "lookup"
    /\ LET r == resolve(table, err, model)
       IN  IF r.raised
           THEN /\ result' = "raised"
                /\ error' = r.error
                /\ pc' = "done"
                /\ UNCHANGED data_dir
           ELSE /\ data_dir' = r.dirs
                /\ pc' = "filename"
                /\ UNCHANGED <<result, error>>
    /\ UNCHANGED <<args, filename, index, pos, requests, responses, printed, figure>>

\* filename = model_filename(initial_time, fhour)
BuildFilename(next) ==
    /\ pc = "filename"
    /\ filename' = model_filename(initial_time, fhour)
    /\ pc' = next
    /\ UNCHANGED <<args, data_dir, index, pos, requests, responses, printed,
                   figure, result, error>>

\* what qpf_24h prints when the grid is missing
cannot_retrieve(fn) ==
    [text |-> "Can not retrieve {} from Micaps server.", arg |-> fn]

\* a mutant of GetModelGrid: the test for None is missing
GetModelGridUnchecked(dirs, last, prints, after) ==
    IF pos >= Len(dirs)
    THEN /\ result' = "raised"
         /\ error' = index_error
         /\ pc' = "done"
         /\ UNCHANGED <<requests, responses, printed, pos, index>>
    ELSE \E r \in {"grid", "None"} :
         /\ requests' = Append(requests, <<dirs[pos + 1], filename>>)
         /\ responses' = Append(responses, r)
         /\ after
         /\ UNCHANGED <<printed, result, error>>

\* x = get_model_grid(dirs[pos], filename=filename); if x is None: [print;] return
\* `last` is the highest position this call reads, `after` where the code goes
\* once position `last` gave a grid
GetModelGrid(dirs, last, prints, after) ==
    IF pos >= Len(dirs)
    THEN /\ result' = "raised"
         /\ error' = index_error
         /\ pc' = "done"
         /\ UNCHANGED <<requests, responses, printed, pos, index>>
    ELSE \E r \in {"grid", "None"} :
         /\ requests' = Append(requests, <<dirs[pos + 1], filename>>)
         /\ responses' = Append(responses, r)
         /\ IF r = "None"
            THEN /\ printed' = IF prints THEN Append(printed, cannot_retrieve(filename))
                                         ELSE printed
                 /\ result' = "returned"
                 /\ pc' = "done"
                 /\ UNCHANGED <<pos, index, error>>
            ELSE /\ after
                 /\ UNCHANGED <<printed, result, error>>

\* fig = plt.figure(...) and everything drawn on it
Draw ==
    /\ pc = "draw"
    /\ figure' = "created"
    /\ pc' = "show"
    /\ UNCHANGED <<args, data_dir, filename, index, pos, requests, responses,
                   printed, result, error>>

\* plt.show(), the last statement
Show ==
    /\ pc = "show"
    /\ figure' = "shown"
    /\ pc' = "done"
    /\ result' = "returned"
    /\ UNCHANGED <<args, data_dir, filename, index, pos, requests, responses,
                   printed, error>>

\* the next position, or the drawing once position `last` is read
NextPosition(last) ==
    IF pos = last
    THEN pc' = "draw" /\ UNCHANGED <<pos, index>>
    ELSE pos' = pos + 1 /\ UNCHANGED <<pc, index>>

-----------------------------------------------------------------------------
(* mesoscale.py: cref_uv850                                                *)

\* the highest position of data_dir that cref_uv850 and cref_uv850_compare read
cref_last == IF draw_wind THEN 2 ELSE 0

cref_uv850_lookup ==
    /\ func = "cref_uv850"
    /\ Lookup(cref_data_dirs, cref_error)

cref_uv850_filename ==
    /\ func = "cref_uv850"
    /\ BuildFilename("retrieve")

cref_uv850_retrieve ==
    /\ func = "cref_uv850"
    /\ pc = "retrieve"
    /\ GetModelGrid(data_dir, cref_last, FALSE, NextPosition(cref_last))
    /\ UNCHANGED <<args, data_dir, filename, figure>>

cref_uv850_draw ==
    /\ func = "cref_uv850"
    /\ Draw

cref_uv850_show ==
    /\ func = "cref_uv850"
    /\ Show

-----------------------------------------------------------------------------
(* mesoscale.py: cref_uv850_compare                                        *)

cref_uv850_compare_filename ==
    /\ func = "cref_uv850_compare"
    /\ BuildFilename("figure")

\* fig = plt.figure(...); grid = AxesGrid(...), before the loop
cref_uv850_compare_figure ==
    /\ func = "cref_uv850_compare"
    /\ pc = "figure"
    /\ figure' = "created"
    /\ pc' = "retrieve"
    /\ UNCHANGED <<args, data_dir, filename, index, pos, requests, responses,
                   printed, result, error>>

\* the next position, the next key of the loop, or the end of the loop
NextInLoop(last) ==
    IF pos < last
    THEN pos' = pos + 1 /\ UNCHANGED <<pc, index>>
    ELSE IF index + 1 < Len(compare_data_dirs)
         THEN index' = index + 1 /\ pos' = 0 /\ UNCHANGED pc
         ELSE pc' = "show" /\ UNCHANGED <<pos, index>>

\* one get_model_grid call of the loop body, for the key at `index`
cref_uv850_compare_retrieve ==
    /\ func = "cref_uv850_compare"
    /\ pc = "retrieve"
    /\ data_dir' = compare_data_dirs[index + 1].dirs
    /\ GetModelGrid(compare_data_dirs[index + 1].dirs, cref_last, FALSE,
                    NextInLoop(cref_last))
    /\ UNCHANGED <<args, filename, figure>>

cref_uv850_compare_show ==
    /\ func = "cref_uv850_compare"
    /\ Show

-----------------------------------------------------------------------------
(* qpf.py: qpf_24h                                                         *)

qpf_24h_lookup ==
    /\ func = "qpf_24h"
    /\ Lookup(qpf_data_dirs, qpf_error)

qpf_24h_filename ==
    /\ func = "qpf_24h"
    /\ BuildFilename("retrieve")

\* a mutant of qpf_24h_retrieve: the print before the return is missing
qpf_24h_retrieve_silent ==
    /\ func = "qpf_24h"
    /\ pc = "retrieve"
    /\ GetModelGrid(data_dir, 0, FALSE, NextPosition(0))
    /\ UNCHANGED <<args, data_dir, filename, figure>>

qpf_24h_retrieve ==
    /\ func = "qpf_24h"
    /\ pc = "retrieve"
    /\ GetModelGrid(data_dir, 0, TRUE, NextPosition(0))
    /\ UNCHANGED <<args, data_dir, filename, figure>>

qpf_24h_draw ==
    /\ func = "qpf_24h"
    /\ Draw

qpf_24h_show ==
    /\ func = "qpf_24h"
    /\ Show

-----------------------------------------------------------------------------
(* synoptic.py: gh500_uv850_mslp                                           *)

gh500_uv850_mslp_lookup ==
    /\ func = "gh500_uv850_mslp"
    /\ Lookup(gh500_data_dirs, gh500_error)

gh500_uv850_mslp_filename ==
    /\ func = "gh500_uv850_mslp"
    /\ BuildFilename("retrieve")

gh500_uv850_mslp_retrieve ==
    /\ func = "gh500_uv850_mslp"
    /\ pc = "retrieve"
    /\ GetModelGrid(data_dir, 3, FALSE, NextPosition(3))
    /\ UNCHANGED <<args, data_dir, filename, figure>>

gh500_uv850_mslp_draw ==
    /\ func = "gh500_uv850_mslp"
    /\ Draw

gh500_uv850_mslp_show ==
    /\ func = "gh500_uv850_mslp"
    /\ Show

-----------------------------------------------------------------------------
(* utility.py: model_filename called on its own                            *)

model_filename_call ==
    /\ func = "model_filename"
    /\ pc = "call"
    /\ filename' = model_filename(initial_time, fhour)
    /\ pc' = "done"
    /\ result' = "returned"
    /\ UNCHANGED <<args, data_dir, index, pos, requests, responses, printed,
                   figure, error>>

-----------------------------------------------------------------------------
(* The calls the model makes.                                              *)

\* the two cases of an ASCII letter, for spelling the names tried
ascii_lower(c) == IF c \in 65..90 THEN c + 32 ELSE c
ascii_upper(c) == IF c \in 97..122 THEN c - 32 ELSE c

\* four spellings of a name: as written, lower case, capitalised, alternating
CaseVariants(s) ==
    { s,
      [i \in 1..Len(s) |-> ascii_lower(s[i])],
      [i \in 1..Len(s) |-> IF i = 1 THEN ascii_upper(s[i]) ELSE ascii_lower(s[i])],
      [i \in 1..Len(s) |-> IF i % 2 = 0 THEN ascii_upper(s[i]) ELSE ascii_lower(s[i])] }

\* the strings of at most MaxPad characters of `chars`
Pads(chars) == UNION { [1..k -> chars] : k \in 0..MaxPad }

Padded(chars, names) ==
    { l \o n \o r : l \in Pads(chars), n \in names, r \in Pads(chars) }

\* the keys of all the tables, the names the error messages offer, and names
\* of no table: empty, a key cut short, a key with a letter more, a key with
\* whitespace inside, a key of no table, a key with an accented letter
BaseNames ==
    { K_SHANGHAI, K_BEIJING, K_GRAPES_MESO, K_GRAPES_3KM, K_ECMWF, K_GRAPES, K_NCEP,
      N_ShangHai, N_BeiJing, N_Grapes_meso, N_Grapes_3km,
      <<>>, Code(<<"S","H","A","N","G","H","A">>), Code(<<"E","C","M","W","F","S">>),
      Code(<<"N","C"," ","E","P">>), Code(<<"G","R","A","P","E","S","_">>), Code(<<"G","F","S">>),
      <<233>> \o Code(<<"c","m","w","f">>) }

\* names spelled with characters outside ASCII: whitespace of every kind
\* around a key, the long s (383) and the dotless i (305), whose upper case
\* is S and I, the sharp s (223), whose upper case is SS, and the Kelvin
\* sign (8490), which is its own upper case
UnicodeNames ==
    { <<11>> \o Code(<<"e","c","m","w","f">>),
      Code(<<"S","H","A","N","G","H","A","I">>) \o <<11>>,
      Code(<<"n","c","e","p">>) \o <<28>>,
      <<160, 8195>> \o Code(<<"N","c","e","p">>) \o <<12288, 133, 31>>,
      <<383>> \o Code(<<"h","a","n","g","h","a","i">>),
      Code(<<"b","e">>) \o <<305>> \o Code(<<"j">>) \o <<305>> \o Code(<<"n","g">>),
      Code(<<"g","r","a","p","e">>) \o <<383>>,
      Code(<<"g","r","a","p","e">>) \o <<223>>,
      Code(<<"g","r","a","p","e","s","_","3">>) \o <<8490>> \o Code(<<"m">>) }

ModelNames ==
    Padded({32, 9}, UNION { CaseVariants(n) : n \in BaseNames }) \cup UnicodeNames

TimeStrings ==
    Padded({10, 11, 160},
           { Code(<<"1","8","0","4","2","0","0","8">>),
             Code(<<"1","8"," ","0","4">>),
             Code(<<"2","0","1","8",".","0","4">>),
             <<>>,
             <<28>> \o Code(<<"1","8","0","4","2","0","0","8">>) \o <<8232, 31>> })

DateTimes ==
    { DateTime(y, mo, d, h, mi, s) :
        y \in {1999, 2000, 2018, 2105}, mo \in {1, 4, 12}, d \in {1, 20, 28},
        h \in {0, 8, 23}, mi \in {0, 30}, s \in {0, 59} }

\* the times and hours given to model_filename: every time with a few hours,
\* and a few times with every hour up to MaxFhour
FilenameInputs ==
    ((DateTimes \cup { Str(t) : t \in TimeStrings }) \X {0, 3, 12, 100, 999, 1000})
    \cup ({ DateTime(2018, 4, 20, 8, 0, 0), DateTime(2000, 1, 1, 0, 30, 59),
            Str(Code(<<"1","8","0","4","2","0","0","8">>)),
            Str(Code(<<" ","1","8","0","4","2","0","0","8"," ">>)) } \X (0..MaxFhour))

\* the times and hours given to the plotting functions
PlotInputs ==
    { <<DateTime(2018, 4, 20, 8, 0, 0), 0>>,
      <<Str(Code(<<" ","1","8","0","4","2","0","0","8"," ">>)), 24>> }

Call(f, m, t, fh, w) ==
    [func |-> f, model |-> m, initial_time |-> t, fhour |-> fh, draw_wind |-> w]

Calls ==
    { Call("model_filename", <<>>, i[1], i[2], FALSE) : i \in FilenameInputs }
    \cup { Call("cref_uv850", m, i[1], i[2], w) :
             m \in ModelNames, i \in PlotInputs, w \in BOOLEAN }
    \cup { Call("cref_uv850_compare", <<>>, i[1], i[2], w) :
             i \in PlotInputs, w \in BOOLEAN }
    \cup { Call("qpf_24h", m, i[1], i[2], FALSE) :
             m \in ModelNames, i \in PlotInputs }
    \cup { Call("gh500_uv850_mslp", m, i[1], i[2], FALSE) :
             m \in ModelNames, i \in PlotInputs }

\* where each function starts
entry(f) ==
    CASE f = "model_filename" -> "call"
      [] f = "cref_uv850_compare" -> "filename"
      [] OTHER -> "lookup"

Init ==
    /\ \E c \in Calls :
         /\ func = c.func
         /\ model = c.model
         /\ initial_time = c.initial_time
         /\ fhour = c.fhour
         /\ draw_wind = c.draw_wind
         /\ pc = entry(c.func)
    /\ data_dir = NoValue
    /\ filename = NoValue
    /\ index = 0
    /\ pos = 0
    /\ requests = <<>>
    /\ responses = <<>>
    /\ printed = <<>>
    /\ figure = "none"
    /\ result = "running"
    /\ error = NoError

Next ==
    \/ model_filename_call
    \/ cref_uv850_lookup
    \/ cref_uv850_filename
    \/ cref_uv850_retrieve
    \/ cref_uv850_draw
    \/ cref_uv850_show
    \/ cref_uv850_compare_filename
    \/ cref_uv850_compare_figure
    \/ cref_uv850_compare_retrieve
    \/ cref_uv850_compare_show
    \/ qpf_24h_lookup
    \/ qpf_24h_filename
    \/ qpf_24h_retrieve
    \/ qpf_24h_draw
    \/ qpf_24h_show
    \/ gh500_uv850_mslp_lookup
    \/ gh500_uv850_mslp_filename
    \/ gh500_uv850_mslp_retrieve
    \/ gh500_uv850_mslp_draw
    \/ gh500_uv850_mslp_show

Spec == Init /\ [][Next]_vars

-----------------------------------------------------------------------------
(* Vocabulary of the properties.                                           *)

\* the functions that take a model name
HasModelArg == func \in {"cref_uv850", "qpf_24h", "gh500_uv850_mslp"}

\* a is the key's character b, or its other case: the lower-case letter of
\* an upper-case ASCII letter, the long s (383) for S, the dotless i (305) for I
SameLetter(a, b) ==
    \/ a = b
    \/ b \in 65..90 /\ a = b + 32
    \/ b = 83 /\ a = 383
    \/ b = 73 /\ a = 305

\* s is key, up to letter case, between two runs of whitespace
IsVariantOf(s, key) ==
    \E i \in 0..Len(s) :
        /\ i + Len(key) <= Len(s)
        /\ \A j \in 1..i : s[j] \in Whitespace
        /\ \A j \in (i + Len(key) + 1)..Len(s) : s[j] \in Whitespace
        /\ \A j \in 1..Len(key) : SameLetter(s[i + j], key[j])

IsDigit(c) == c \in 48..57
DigitValue(c) == c - 48

\* the number a string of digits spells
RECURSIVE ParseInt(_)
ParseInt(s) ==
    IF s = <<>> THEN 0
    ELSE 10 * ParseInt(SubSeq(s, 1, Len(s) - 1)) + DigitValue(s[Len(s)])

AllDigits(s) == \A i \in DOMAIN s : IsDigit(s[i])

\* the position of the last '.' (46) of a filename
LastDot(fn) == CHOOSE i \in DOMAIN fn : fn[i] = 46 /\ \A j \in (i + 1)..Len(fn) : fn[j] # 46
HasDot(fn) == \E i \in DOMAIN fn : fn[i] = 46
AfterDot(fn) == SubSeq(fn, LastDot(fn) + 1, Len(fn))
BeforeDot(fn) == SubSeq(fn, 1, LastDot(fn) - 1)

\* s spells n in decimal, with zeros in front up to three characters and none beyond
SpellsHour(s, n) ==
    /\ AllDigits(s)
    /\ ParseInt(s) = n
    /\ Len(s) >= 3
    /\ Len(s) > 3 => s[1] # 48

\* the last get_model_grid call of this run returned None
NotFound == responses # <<>> /\ responses[Len(responses)] = "None"

IsPrefix(s, t) == Len(s) <= Len(t) /\ s = SubSeq(t, 1, Len(s))

RECURSIVE Flatten(_)
Flatten(ss) == IF ss = <<>> THEN <<>> ELSE Head(ss) \o Flatten(Tail(ss))

\* the first n entries of s, or all of s if it has fewer
FirstN(s, n) == [i \in 1..(IF n < Len(s) THEN n ELSE Len(s)) |-> s[i]]

\* the paths the call needs, in the order of the table positions
RequiredPaths ==
    CASE func = "qpf_24h" -> FirstN(data_dir, 1)
      [] func = "gh500_uv850_mslp" -> FirstN(data_dir, 4)
      [] func = "cref_uv850" -> FirstN(data_dir, IF draw_wind THEN 3 ELSE 1)
      [] func = "cref_uv850_compare" ->
            Flatten([i \in DOMAIN compare_data_dirs |->
                        FirstN(compare_data_dirs[i].dirs, IF draw_wind THEN 3 ELSE 1)])
      [] OTHER -> <<>>

\* the highest number of entries each function reads from a path list
EntriesRead(f) ==
    CASE f = "qpf_24h" -> 1
      [] f = "cref_uv850" -> 3
      [] f = "cref_uv850_compare" -> 3
      [] f = "gh500_uv850_mslp" -> 4
      [] OTHER -> 0

-----------------------------------------------------------------------------
(* The properties.                                                         *)

\* C1: once the lookup is over, a model name that is a key of the function's
\* table up to letter case and surrounding whitespace has given exactly the
\* path list the table configures for that key, and no error.
C1_VariantResolves ==
    HasModelArg /\ pc # "lookup" =>
        \A i \in DOMAIN data_dirs(func) :
            IsVariantOf(model, data_dirs(func)[i].key) =>
                /\ data_dir = data_dirs(func)[i].dirs
                /\ result # "raised"
                /\ error = NoError

C1_Witness ==
    /\ func = "qpf_24h"
    /\ model = Code(<<" ","e","c","m","w","f"," ">>)
    /\ pc = "filename"
    /\ data_dir = <<"ECMWF_HR/RAIN24">>

\* C2: once the lookup is over, a model name that after strip() and upper()
\* is no key of the function's table has raised the function's ValueError, and
\* no path list was taken.
C2_UnknownRaises ==
    HasModelArg /\ pc # "lookup"
        /\ str_upper(str_strip(model)) \notin Keys(data_dirs(func)) =>
            /\ result = "raised"
            /\ error = unknown_model_error(func)
            /\ error.kind = "ValueError"
            /\ data_dir = NoValue

C2_Witness ==
    /\ func = "qpf_24h"
    /\ model = Code(<<" ","G","r","a","p","e","s">>)
    /\ result = "raised"
    /\ error.kind = "ValueError"

\* C3: the names the raised ValueError offers are, up to letter case, exactly
\* the keys of the table of the function that raised it.
C3_ErrorNamesAreKeys ==
    result = "raised" /\ error.kind = "ValueError" =>
        { str_upper(error.choices[i]) : i \in DOMAIN error.choices }
            = Keys(data_dirs(func))

\* C4 as claimed: for a forecast hour >= 0 the filename ends in '.' followed
\* by exactly three digits.
C4_ExactlyThreeDigits ==
    filename # NoValue /\ fhour >= 0 =>
        /\ HasDot(filename)
        /\ Len(AfterDot(filename)) = 3
        /\ AllDigits(AfterDot(filename))

\* C4 as amended: for a forecast hour >= 0 the part of the filename after the
\* last '.' spells the hour in decimal; it has exactly three digits when the
\* hour is at most 999, and the hour's own digits, more than three, from 1000 on.
C4_PaddedToAtLeastThree ==
    filename # NoValue /\ fhour >= 0 =>
        /\ HasDot(filename)
        /\ SpellsHour(AfterDot(filename), fhour)
        /\ fhour <= 999 => Len(AfterDot(filename)) = 3
        /\ fhour >= 1000 => Len(AfterDot(filename)) > 3

C4_Witness ==
    /\ func = "model_filename"
    /\ fhour = 1000
    /\ filename = Code(<<"1","8","0","4","2","0","0","8",".","1","0","0","0">>)

\* C5: for a datetime the filename is eight digits, two each for the year
\* modulo 100, the month, the day and the hour, then '.', then the forecast
\* hour; the minute and the second have no part in it.
C5_DatetimeToken ==
    filename # NoValue /\ initial_time.kind = "datetime" /\ fhour >= 0 =>
        /\ Len(filename) > 9
        /\ AllDigits(SubSeq(filename, 1, 8))
        /\ ParseInt(SubSeq(filename, 1, 2)) = initial_time.year % 100
        /\ ParseInt(SubSeq(filename, 3, 4)) = initial_time.month
        /\ ParseInt(SubSeq(filename, 5, 6)) = initial_time.day
        /\ ParseInt(SubSeq(filename, 7, 8)) = initial_time.hour
        /\ filename[9] = 46
        /\ SpellsHour(SubSeq(filename, 10, Len(filename)), fhour)
        /\ filename = model_filename(
               [initial_time EXCEPT !.minute = 0, !.second = 0], fhour)

C5_Witness ==
    /\ func = "model_filename"
    /\ initial_time = DateTime(2018, 4, 20, 8, 30, 59)
    /\ fhour = 3
    /\ filename = Code(<<"1","8","0","4","2","0","0","8",".","0","0","3">>)

\* C6: for a string the part of the filename before the last '.' is the
\* string without its leading and trailing whitespace and otherwise unchanged,
\* and the part after it is the forecast hour.
C6_StringStripped ==
    filename # NoValue /\ initial_time.kind = "str" /\ fhour >= 0 =>
        /\ HasDot(filename)
        /\ SpellsHour(AfterDot(filename), fhour)
        /\ LET t == initial_time.text
               mid == BeforeDot(filename)
           IN  /\ mid # <<>> => mid[1] \notin Whitespace /\ mid[Len(mid)] \notin Whitespace
               /\ \E i \in 0..Len(t) :
                     /\ i + Len(mid) <= Len(t)
                     /\ mid = SubSeq(t, i + 1, i + Len(mid))
                     /\ \A j \in 1..i : t[j] \in Whitespace
                     /\ \A j \in (i + Len(mid) + 1)..Len(t) : t[j] \in Whitespace

C6_Witness ==
    /\ func = "model_filename"
    /\ initial_time = Str(Code(<<" ","1","8","0","4","2","0","0","8"," ">>))
    /\ fhour = 12
    /\ filename = Code(<<"1","8","0","4","2","0","0","8",".","0","1","2">>)

\* C7 as claimed: when a get_model_grid call returned None, a message was
\* printed and the function returned without raising.
C7_PrintAndReturn ==
    NotFound =>
        /\ printed # <<>>
        /\ result = "returned"
        /\ error = NoError

\* C7 as amended: when a get_model_grid call returned None, the function
\* returned without raising and without showing the figure; qpf_24h printed
\* one message naming the filename, the other three printed nothing.
C7_ReturnAndPrintOnlyInQpf ==
    NotFound =>
        /\ result = "returned"
        /\ error = NoError
        /\ figure # "shown"
        /\ func = "qpf_24h" =>
              /\ Len(printed) = 1
              /\ printed[1].text = "Can not retrieve {} from Micaps server."
              /\ printed[1].arg = filename
        /\ func # "qpf_24h" => printed = <<>>

C7_Witness ==
    /\ func = "qpf_24h"
    /\ NotFound
    /\ Len(printed) = 1
    /\ result = "returned"

\* C8: the get_model_grid calls made so far are the first of the required
\* paths, in table order, each with the filename of the call, and each but
\* possibly the last returned a grid; the figure is shown only when all the
\* required paths were asked for and all returned a grid; and after a call
\* returned None no other call is made.
C8_Inv ==
    /\ Len(responses) = Len(requests)
    /\ IsPrefix([i \in DOMAIN requests |-> requests[i][1]], RequiredPaths)
    /\ \A i \in DOMAIN requests :
          requests[i][2] = filename /\ filename = model_filename(initial_time, fhour)
    /\ \A i \in 1..(Len(responses) - 1) : responses[i] = "grid"
    /\ figure = "shown" =>
          /\ func # "model_filename"
          /\ [i \in DOMAIN requests |-> requests[i][1]] = RequiredPaths
          /\ \A i \in DOMAIN responses : responses[i] = "grid"

C8_RetrievalOrder ==
    [](C8_Inv) /\ [][NotFound => requests' = requests /\ figure' = figure]_vars

C8_Witness ==
    /\ func = "cref_uv850_compare"
    /\ draw_wind
    /\ figure = "shown"
    /\ Len(requests) = 12

\* C9: with a model name that is no key of the function's table, no
\* get_model_grid call is made, no filename is built and no figure is created,
\* before the error is raised and after.
C9_ValidationFirst ==
    HasModelArg /\ str_upper(str_strip(model)) \notin Keys(data_dirs(func)) =>
        /\ requests = <<>>
        /\ filename = NoValue
        /\ figure = "none"
        /\ pc # "lookup" => result = "raised"

C9_Witness ==
    /\ func = "gh500_uv850_mslp"
    /\ model = Code(<<"G","F","S">>)
    /\ result = "raised"
    /\ requests = <<>>
    /\ filename = NoValue

\* C10: every path list of a function's table has at least as many entries
\* as the function reads, the position about to be read is inside the list,
\* and no read has raised IndexError.
C10_ReadsInRange ==
    /\ \A i \in DOMAIN data_dirs(func) :
          Len(data_dirs(func)[i].dirs) >= EntriesRead(func)
    /\ error.kind # "IndexError"
    /\ pc = "retrieve" /\ func # "cref_uv850_compare" => pos < Len(data_dir)
    /\ \A i \in DOMAIN requests : requests[i][1] \in
          UNION { {data_dirs(func)[j].dirs[k] : k \in DOMAIN data_dirs(func)[j].dirs} :
                  j \in DOMAIN data_dirs(func) }

C10_Witness ==
    /\ func = "gh500_uv850_mslp"
    /\ str_upper(str_strip(model)) = K_NCEP
    /\ Len(requests) = 4
    /\ requests[4][1] = "NCEP_GFS/PRMSL"

=============================================================================
